---- MODULE Spec2Model ----
(***************************************************************************)
(* A model of main.py: the match-history exporter.                         *)
(*                                                                         *)
(* Python's Optional values are modelled as sequences of length at most    *)
(* one: None is << >> and a present value x is <<x>>.  Decimal prices are  *)
(* integers counting hundredths (float("1.85") is 185).  Timestamps are    *)
(* the offset-aware ISO strings the remote API serves; an instant is an    *)
(* integer number of hours since 2024-08-03T00:00Z.  The waits between     *)
(* retries, the pause after an odds call and the log lines are left out:   *)
(* they change no state.                                                   *)
(***************************************************************************)
EXTENDS Integers, Sequences, FiniteSets, TLC

VARIABLES
    pc,            \* position of the running function
    ret,           \* who called it: "main" inside a run of main, "caller" otherwise
    odds_resp,     \* pick_prematch_1x2: the "response" list of its odds_resp argument
    kickoff_iso,   \* pick_prematch_1x2: its kickoff_iso argument
    best_triple,   \* pick_prematch_1x2: the returned triple, None before the return
    api_key,       \* whether API_FOOTBALL_KEY or APISPORTS_KEY is set in the environment
    sample_exists, \* whether sample_data.csv exists next to the script
    use_api,       \* main: headers is not None
    team_id,       \* main: the resolved team id, None before
    team_name,     \* the subject team
    fixtures,      \* the fixture list build_dataframe iterates
    fetch_odds,    \* build_dataframe: its fetch_odds flag
    done,          \* build_dataframe: how many fixtures the loop has consumed
    rows,          \* build_dataframe: the rows appended so far
    last_call,     \* the api_get call made by the latest step, None if it made none
    df,            \* the data frame handed to export_excel, None before it exists
    exc,           \* the exception propagating out of the running function, None if none
    exit_code,     \* the exit status of the process, None while it runs
    workbook       \* the spreadsheet written by export_excel, None if none was written

pickVars == <<odds_resp, kickoff_iso, best_triple>>
envVars == <<api_key, sample_exists, team_name>>
buildVars == <<fixtures, fetch_odds, done, rows>>
vars == <<pc, ret, pickVars, envVars, use_api, team_id, buildVars, last_call, df,
          exc, exit_code, workbook>>

None == << >>
Some(x) == <<x>>

\* Sequences over S of length at most n.
SeqUpTo(S, n) == UNION {[1..k -> S] : k \in 0..n}

----------------------------------------------------------------------------
(* Bounds *)

MaxRecords == 2
MaxFixtures == 2
MaxRows == 4

----------------------------------------------------------------------------
(* String conversions used by the selector *)

\* str.lower() on the bet names that occur
LowerName(s) ==
    CASE s = "Match Winner" -> "match winner"
      [] s = "1X2" -> "1x2"
      [] OTHER -> s

\* (val.get("value") or "").strip().lower()
NormLabel(v) ==
    IF v = None THEN ""
    ELSE CASE v[1] = "Home" -> "home"
           [] v[1] = " HOME " -> "home"
           [] v[1] = "Draw" -> "draw"
           [] v[1] = "X" -> "x"
           [] v[1] = "Away" -> "away"
           [] v[1] = "2" -> "2"
           [] OTHER -> v[1]

\* datetime.fromisoformat(s.replace("Z","+00:00")); None stands for the
\* ValueError of a string that is not an ISO timestamp.
FromIso(s) ==
    CASE s = "2024-08-03T14:00:00+00:00" -> Some(14)
      [] s = "2024-08-10T13:00:00+00:00" -> Some(181)
      [] s = "2024-08-10T14:00:00Z" -> Some(182)
      [] s = "2024-08-10T14:00:00+00:00" -> Some(182)
      [] s = "2024-08-10T15:00:00+00:00" -> Some(183)
      [] OTHER -> None

\* float(x) in hundredths; None stands for the TypeError of float(None) and
\* the ValueError of a string that is not a number.
ToFloat(x) ==
    IF x = None THEN None
    ELSE CASE x[1] = "1.85" -> Some(185)
           [] x[1] = "2.10" -> Some(210)
           [] x[1] = "3.40" -> Some(340)
           [] x[1] = "4.20" -> Some(420)
           [] x[1] = "0" -> Some(0)
           [] x[1] = "0.00" -> Some(0)
           [] OTHER -> None

\* Truthy with "is not None" in place of truthiness
Truthy_NotNone(p) == p # None

\* Python truthiness of an Optional[float]: None and 0.0 are falsy.
Truthy(p) == p # None /\ p[1] # 0

----------------------------------------------------------------------------
(* pick_prematch_1x2 *)

\* try: updated_dt = fromisoformat(...) if updated else None / except: None
ParseUpdated(updated) ==
    IF updated = None \/ updated = Some("") THEN None ELSE FromIso(updated[1])

\* The loop over bet["values"]: each value overwrites the side its label names.
RECURSIVE ExtractFrom(_, _, _)
ExtractFrom(values, i, hda) ==
    IF i > Len(values) THEN hda
    ELSE LET name == NormLabel(values[i].value)
             odd == ToFloat(values[i].odd)
             nxt == IF name \in {"home", "1"} THEN <<odd, hda[2], hda[3]>>
                    ELSE IF name \in {"draw", "x"} THEN <<hda[1], odd, hda[3]>>
                    ELSE IF name \in {"away", "2"} THEN <<hda[1], hda[2], odd>>
                    ELSE hda
         IN ExtractFrom(values, i + 1, nxt)

ExtractTriple(values) == ExtractFrom(values, 1, <<None, None, None>>)

IsMatchWinner(bet) == LowerName(bet.name) \in {"match winner", "1x2"}

\* NotAfterKickoff without the comparison against kickoff
NotAfterKickoff_NoBound(updated_dt, kickoff) == updated_dt # None

\* updated_dt and updated_dt <= kickoff
NotAfterKickoff(updated_dt, kickoff) ==
    updated_dt # None /\ updated_dt[1] <= kickoff[1]

\* Replaces without the comparison: the last record seen wins
Replaces_Always(updated_dt, best_dt) == TRUE

\* Replaces with >= in place of >
Replaces_OrEqual(updated_dt, best_dt) ==
    best_dt = None \/ updated_dt[1] >= best_dt[1]

\* (best_dt is None) or (updated_dt > best_dt)
Replaces(updated_dt, best_dt) ==
    best_dt = None \/ updated_dt[1] > best_dt[1]

\* The body of "for bet in book.bets"; best is [dt, triple].
StepBet(book, bet, kickoff, best) ==
    IF ~IsMatchWinner(bet) THEN best
    ELSE LET updated_dt == ParseUpdated(book.update)
         IN IF ~NotAfterKickoff(updated_dt, kickoff) THEN best
            ELSE LET hda == ExtractTriple(bet.values)
                 IN IF (Truthy(hda[1]) \/ Truthy(hda[2]) \/ Truthy(hda[3]))
                       /\ Replaces(updated_dt, best.dt)
                    THEN [dt |-> updated_dt, triple |-> hda]
                    ELSE best

RECURSIVE LoopBets(_, _, _, _)
LoopBets(book, i, kickoff, best) ==
    IF i > Len(book.bets) THEN best
    ELSE LoopBets(book, i + 1, kickoff, StepBet(book, book.bets[i], kickoff, best))

RECURSIVE LoopBooks(_, _, _, _)
LoopBooks(fixture, i, kickoff, best) ==
    IF i > Len(fixture.bookmakers) THEN best
    ELSE LoopBooks(fixture, i + 1, kickoff,
                   LoopBets(fixture.bookmakers[i], 1, kickoff, best))

RECURSIVE LoopResp(_, _, _, _)
LoopResp(resp, i, kickoff, best) ==
    IF i > Len(resp) THEN best
    ELSE LoopResp(resp, i + 1, kickoff, LoopBooks(resp[i], 1, kickoff, best))

pick_prematch_1x2(resp, kickoff_str) ==
    IF resp = << >> THEN <<None, None, None>>
    ELSE LoopResp(resp, 1, FromIso(kickoff_str),
                  [dt |-> None, triple |-> <<None, None, None>>]).triple

----------------------------------------------------------------------------
(* Inputs of the selector *)

UpdateDomain ==
    { None, Some("yesterday"),
      Some("2024-08-10T13:00:00+00:00"), Some("2024-08-10T14:00:00Z"),
      Some("2024-08-10T15:00:00+00:00") }

NameDomain == { "Match Winner", "Goals Over/Under" }

Val(l, o) == [value |-> Some(l), odd |-> Some(o)]

ValuesDomain ==
    { << >>,
      <<Val("Home", "1.85"), Val("Draw", "3.40"), Val("Away", "4.20")>>,
      <<Val(" HOME ", "2.10"), Val("X", "3.40"), Val("2", "3.40")>>,
      <<Val("Home", "0"), Val("Draw", "0.00"), Val("Away", "0")>>,
      <<Val("Home", "n/a"), [value |-> Some("Draw"), odd |-> None]>>,
      <<Val("Home", "0"), Val("Away", "2.10")>>,
      <<Val("Home", "1.85"), Val("Home", "n/a"), [value |-> None, odd |-> Some("4.20")]>> }

RecDomain == [update : UpdateDomain, name : NameDomain, values : ValuesDomain]

KickoffDomain == { "2024-08-10T14:00:00Z", "2024-08-10T14:00:00+00:00" }

Bet(r) == [name |-> r.name, values |-> r.values]

\* The three ways a list of records nests in a response: one fixture entry
\* per record, one bookmaker per record, or all bets under one bookmaker
\* (which then share the bookmaker's update stamp).
Nest(recs, shape) ==
    CASE shape = "entries" ->
           [i \in 1..Len(recs) |->
              [bookmakers |-> <<[update |-> recs[i].update, bets |-> <<Bet(recs[i])>>]>>]]
      [] shape = "bookmakers" ->
           <<[bookmakers |->
                [i \in 1..Len(recs) |->
                   [update |-> recs[i].update, bets |-> <<Bet(recs[i])>>]]]>>
      [] shape = "bets" ->
           <<[bookmakers |->
                <<[update |-> IF recs = << >> THEN None ELSE recs[1].update,
                   bets |-> [i \in 1..Len(recs) |-> Bet(recs[i])]]>>]>>

ShapeDomain == {"entries", "bookmakers", "bets"}

----------------------------------------------------------------------------
(* The selector applied to one input *)

InitPick ==
    /\ pc = "pick"
    /\ ret = "caller"
    /\ \E recs \in SeqUpTo(RecDomain, MaxRecords), shape \in ShapeDomain :
          odds_resp \in { << >>, Nest(recs, shape) }
    /\ kickoff_iso \in KickoffDomain
    /\ best_triple = None
    /\ api_key = FALSE /\ sample_exists = FALSE /\ team_name = ""
    /\ use_api = FALSE /\ team_id = None
    /\ fixtures = << >> /\ fetch_odds = FALSE /\ done = 0 /\ rows = << >>
    /\ last_call = None /\ df = None /\ exc = None /\ exit_code = None
    /\ workbook = None

Pick ==
    /\ pc = "pick"
    /\ best_triple' = Some(pick_prematch_1x2(odds_resp, kickoff_iso))
    /\ pc' = "picked"
    /\ UNCHANGED <<ret, odds_resp, kickoff_iso, envVars, use_api, team_id, buildVars,
                   last_call, df, exc, exit_code, workbook>>

NextPick == Pick

SpecPick == InitPick /\ [][NextPick]_vars

----------------------------------------------------------------------------
(* api_get under its retry decorator *)

MaxAttempts == 3

APIError(msg) == [type |-> "APIError", msg |-> msg]

Raise(e) == [raised |-> Some(e), value |-> << >>]
Return(v) == [raised |-> None, value |-> v]

\* f"HTTP_{r.status_code}: ..."
HttpMessage(status) ==
    CASE status = 500 -> "HTTP_500"
      [] status = 404 -> "HTTP_404"
      [] OTHER -> "HTTP_other"

\* One execution of the decorated body.  A reply with status 0 stands for
\* requests.get raising instead of answering.
Attempt(key, reply) ==
    IF ~key THEN Raise(APIError("NO_API_KEY"))
    ELSE IF reply.status = 0 THEN Raise([type |-> "ConnectionError", msg |-> ""])
    ELSE IF reply.status = 429 THEN Raise(APIError("RATE_LIMIT"))
    ELSE IF reply.status >= 300 THEN Raise(APIError(HttpMessage(reply.status)))
    ELSE Return(reply.body)

\* retry=retry_if_exception_type(APIError)
RetryOn(e) == e.type = "APIError"

\* stop=stop_after_attempt(3)
StopAfter(n) == n >= MaxAttempts

\* The retry loop: a retried exception that meets the stop condition is
\* replaced by a RetryError (the decorator is used without reraise=True);
\* an exception that is not retried propagates as it is.
RECURSIVE Retrying(_, _, _)
Retrying(key, replies, n) ==
    LET a == Attempt(key, replies[n])
    IN IF a.raised = None
       THEN [attempts |-> n, raised |-> None, value |-> a.value, cause |-> None]
       ELSE IF RetryOn(a.raised[1])
            THEN IF StopAfter(n)
                 THEN [attempts |-> n,
                       raised |-> Some([type |-> "RetryError", msg |-> a.raised[1].msg]),
                       value |-> << >>, cause |-> a.raised]
                 ELSE Retrying(key, replies, n + 1)
            ELSE [attempts |-> n, raised |-> a.raised, value |-> << >>,
                  cause |-> a.raised]

api_get(key, replies) == Retrying(key, replies, 1)

StatusDomain == {200, 429, 500, 0}

\* The answers to the attempts of one call.  An answer of 200 and a failed
\* request both end the call, so the answers behind them are never asked
\* for; they are fixed at 200.
StatusSeqs ==
    { s \in [1..MaxAttempts -> StatusDomain] :
        \A n \in 1..(MaxAttempts - 1) : s[n] \in {200, 0} => s[n + 1] = 200 }

\* What the remote would answer to each of the attempts of one call; the
\* body is what it serves when it answers 200.
Replies(statuses, body) ==
    [n \in 1..MaxAttempts |-> [status |-> statuses[n], body |-> body]]

----------------------------------------------------------------------------
(* Team resolver and fixture lister *)

\* str.lower() on the team names that occur
Lower(s) ==
    CASE s = "Arsenal" -> "arsenal"
      [] s = "ARSENAL" -> "arsenal"
      [] s = "Arsenal FC" -> "arsenal fc"
      [] s = "Chelsea" -> "chelsea"
      [] s = "Liverpool" -> "liverpool"
      [] OTHER -> s

RECURSIVE ExactMatch(_, _, _)
ExactMatch(results, i, name) ==
    IF i > Len(results) THEN None
    ELSE IF results[i].name # "" /\ Lower(results[i].name) = Lower(name)
         THEN Some(results[i].id)
         ELSE ExactMatch(results, i + 1, name)

\* find_team_id applied to the "response" list of the /teams answer
find_team_id(results, name) ==
    IF results = << >> THEN None
    ELSE IF ExactMatch(results, 1, name) # None THEN ExactMatch(results, 1, name)
    ELSE Some(results[1].id)

\* The sort key of a fixture, x["fixture"]["date"]: the dates that occur are
\* all written with the +00:00 offset, so their string order is their order
\* in time.
DateKey(date) == FromIso(date)[1]

\* list.sort is stable: x goes behind every element whose key is not larger.
RECURSIVE InsertByDate(_, _)
InsertByDate(sorted, x) ==
    IF sorted = << >> THEN <<x>>
    ELSE IF DateKey(sorted[Len(sorted)].date) <= DateKey(x.date)
         THEN Append(sorted, x)
         ELSE Append(InsertByDate(SubSeq(sorted, 1, Len(sorted) - 1), x),
                     sorted[Len(sorted)])

RECURSIVE SortFixtures(_, _)
SortFixtures(fs, n) ==
    IF n = 0 THEN << >> ELSE InsertByDate(SortFixtures(fs, n - 1), fs[n])

\* list_fixtures applied to the "response" list of the /fixtures answer, run
\* without --league.
list_fixtures(response) == SortFixtures(response, Len(response))

----------------------------------------------------------------------------
(* Row builder *)

extract_score(f) == <<f.goals.home, f.goals.away>>

\* outcome_from_score with >= in place of >
outcome_from_score_GreaterEq(home_goals, away_goals) ==
    IF home_goals = None \/ away_goals = None THEN None
    ELSE IF home_goals[1] >= away_goals[1] THEN Some("H")
    ELSE IF home_goals[1] < away_goals[1] THEN Some("A")
    ELSE Some("D")

outcome_from_score(home_goals, away_goals) ==
    IF home_goals = None \/ away_goals = None THEN None
    ELSE IF home_goals[1] > away_goals[1] THEN Some("H")
    ELSE IF home_goals[1] < away_goals[1] THEN Some("A")
    ELSE Some("D")

\* get_fixture_odds_1x2: the call and, when it returns, the selected triple
get_fixture_odds_1x2(key, replies, date_iso) ==
    LET call == api_get(key, replies)
    IN [call |-> call,
        triple |-> IF call.raised = None
                   THEN pick_prematch_1x2(call.value, date_iso)
                   ELSE <<None, None, None>>]

team_side(home, away, team) ==
    IF home # "" /\ Lower(home) = Lower(team) THEN Some("Home")
    ELSE IF away # "" /\ Lower(away) = Lower(team) THEN Some("Away")
    ELSE None

team_odds(side, hda) ==
    IF side = Some("Home") THEN hda[1]
    ELSE IF side = Some("Away") THEN hda[3]
    ELSE None

\* The dictionary appended to rows; the columns copied through unread
\* (League, Season, Round, Kickoff_Timestamp, FixtureID, Status) are left out.
MakeRow(f, hda, team) ==
    LET score == extract_score(f)
        side == team_side(f.home, f.away, team)
    IN [DateUTC |-> f.date, Home |-> f.home, Away |-> f.away,
        HomeGoals |-> score[1], AwayGoals |-> score[2],
        Outcome |-> outcome_from_score(score[1], score[2]),
        Odds_H |-> hda[1], Odds_D |-> hda[2], Odds_A |-> hda[3],
        TeamSide |-> side, TeamOdds |-> team_odds(side, hda)]

GoalDomain == {None, Some(0), Some(1)}

Fx(date, home, away, hg, ag) ==
    [date |-> date, home |-> home, away |-> away, goals |-> [home |-> hg, away |-> ag]]

\* Every score, known or not, of one home match, and three finished matches
\* that differ from it in the date, the side or the spelling of the name.
FixtureDomain ==
    { Fx("2024-08-10T14:00:00+00:00", "Arsenal", "Chelsea", hg, ag) :
        hg \in GoalDomain, ag \in GoalDomain }
    \cup { Fx("2024-08-03T14:00:00+00:00", "Arsenal", "Chelsea", Some(0), Some(1)),
           Fx("2024-08-10T14:00:00+00:00", "Chelsea", "ARSENAL", Some(1), Some(0)),
           Fx("2024-08-10T14:00:00+00:00", "Arsenal FC", "Liverpool", Some(1), Some(0)) }

\* Bodies of the /odds answer: no odds at all, or one bookmaker stamped an
\* hour before the 10 August kickoff.
OddsBodyDomain ==
    { << >>,
      <<[bookmakers |->
           <<[update |-> Some("2024-08-10T13:00:00+00:00"),
              bets |-> <<[name |-> "Match Winner",
                          values |-> <<Val("Home", "1.85"), Val("Draw", "3.40"),
                                       Val("Away", "4.20")>>]>>]>>]>> }

\* The exception leaves the running function: inside main it reaches the
\* try statement, elsewhere the caller.
Propagate(e) ==
    /\ exc' = Some(e)
    /\ pc' = IF ret = "main" THEN "main_except" ELSE "raised"

\* One pass of "for f in fixtures".
BuildIter ==
    /\ pc = "build"
    /\ done < Len(fixtures)
    /\ LET f == fixtures[done + 1]
       IN IF fetch_odds
          THEN \E statuses \in StatusSeqs, body \in OddsBodyDomain :
                 LET got == get_fixture_odds_1x2(api_key, Replies(statuses, body), f.date)
                     e == got.call.raised
                 IN /\ last_call' = Some(got.call)
                    /\ IF e = None
                       THEN /\ rows' = Append(rows, MakeRow(f, got.triple, team_name))
                            /\ done' = done + 1
                            /\ UNCHANGED <<pc, fetch_odds, exc>>
                       ELSE IF e[1].type = "APIError"
                       THEN /\ fetch_odds' = (fetch_odds /\ e[1].msg # "NO_API_KEY")
                            /\ rows' = Append(rows, MakeRow(f, <<None, None, None>>, team_name))
                            /\ done' = done + 1
                            /\ UNCHANGED <<pc, exc>>
                       ELSE /\ Propagate(e[1])
                            /\ UNCHANGED <<fetch_odds, rows, done>>
          ELSE /\ last_call' = None
               /\ rows' = Append(rows, MakeRow(f, <<None, None, None>>, team_name))
               /\ done' = done + 1
               /\ UNCHANGED <<pc, fetch_odds, exc>>
    /\ UNCHANGED <<ret, pickVars, envVars, use_api, team_id, fixtures, df, exit_code,
                   workbook>>

\* df.sort_values("DateUTC") does not promise the order of rows with equal
\* dates: any arrangement in date order may come out.
DateOrders(rs) ==
    { p \in [1..Len(rs) -> 1..Len(rs)] :
        /\ \A i, j \in 1..Len(rs) : i # j => p[i] # p[j]
        /\ \A i, j \in 1..Len(rs) :
              i < j => FromIso(rs[p[i]].DateUTC)[1] <= FromIso(rs[p[j]].DateUTC)[1] }

\* The end of the loop: the frame is made, sorted and returned.
BuildReturn ==
    /\ pc = "build"
    /\ done = Len(fixtures)
    /\ \E p \in DateOrders(rows) : df' = Some([i \in 1..Len(rows) |-> rows[p[i]]])
    /\ pc' = IF ret = "main" THEN "export" ELSE "returned"
    /\ last_call' = None
    /\ UNCHANGED <<ret, pickVars, envVars, use_api, team_id, buildVars, exc, exit_code,
                   workbook>>

InitBuild ==
    /\ pc = "build"
    /\ ret = "caller"
    /\ odds_resp = << >> /\ kickoff_iso = "" /\ best_triple = None
    /\ api_key \in BOOLEAN
    /\ sample_exists = FALSE
    /\ team_name = "Arsenal"
    /\ use_api = FALSE /\ team_id = None
    /\ fixtures \in SeqUpTo(FixtureDomain, MaxFixtures)
    /\ fetch_odds \in BOOLEAN
    /\ done = 0 /\ rows = << >>
    /\ last_call = None /\ df = None /\ exc = None /\ exit_code = None
    /\ workbook = None

NextBuild == BuildIter \/ BuildReturn

SpecBuild == InitBuild /\ [][NextBuild]_vars

----------------------------------------------------------------------------
(* Exporter *)

Count(frame, P(_)) == Cardinality({ i \in 1..Len(frame) : P(frame[i]) })

IsWin(r) ==
    \/ r.Outcome = Some("H") /\ r.TeamSide = Some("Home")
    \/ r.Outcome = Some("A") /\ r.TeamSide = Some("Away")

IsDraw(r) == r.Outcome = Some("D")

\* IsLoss counting only the matches played at home
IsLoss_HomeOnly(r) == r.Outcome = Some("A") /\ r.TeamSide = Some("Home")

IsLoss(r) ==
    \/ r.Outcome = Some("A") /\ r.TeamSide = Some("Home")
    \/ r.Outcome = Some("H") /\ r.TeamSide = Some("Away")

HasOutcome(r) == r.Outcome # None

\* The workbook export_excel writes: the data sheet and the one-row summary,
\* whose counts are present only if some row has an Outcome.
export_excel(frame, team) ==
    [data |-> frame,
     summary |->
        [Team |-> team,
         Matches |-> Len(frame),
         counts |-> IF Count(frame, HasOutcome) > 0
                    THEN Some([Wins |-> Count(frame, IsWin),
                               Draws |-> Count(frame, IsDraw),
                               Losses |-> Count(frame, IsLoss)])
                    ELSE None]]

\* export_excel, followed inside main by the normal end of the process.
ExportExcel ==
    /\ pc = "export"
    /\ workbook' = Some(export_excel(df[1], team_name))
    /\ pc' = IF ret = "main" THEN "exited" ELSE "returned"
    /\ exit_code' = IF ret = "main" THEN Some(0) ELSE exit_code
    /\ last_call' = None
    /\ UNCHANGED <<ret, pickVars, envVars, use_api, team_id, buildVars, df, exc>>

SummaryFixtureDomain ==
    { Fx("2024-08-10T14:00:00+00:00", n[1], n[2], g[1], g[2]) :
        n \in { <<"Arsenal", "Chelsea">>, <<"Chelsea", "ARSENAL">>,
                <<"Arsenal FC", "Liverpool">> },
        g \in { <<Some(1), Some(0)>>, <<Some(0), Some(1)>>, <<Some(1), Some(1)>>,
                <<None, None>> } }

\* export_excel applied to the rows the row builder makes of a fixture list
\* when it fetches no odds.
InitExport ==
    /\ pc = "export"
    /\ ret = "caller"
    /\ odds_resp = << >> /\ kickoff_iso = "" /\ best_triple = None
    /\ api_key = FALSE /\ sample_exists = FALSE
    /\ team_name = "Arsenal"
    /\ use_api = FALSE /\ team_id = None
    /\ fixtures \in SeqUpTo(SummaryFixtureDomain, MaxRows)
    /\ fetch_odds = FALSE
    /\ done = Len(fixtures)
    /\ rows = [i \in 1..Len(fixtures) |-> MakeRow(fixtures[i], <<None, None, None>>, team_name)]
    /\ df = Some(rows)
    /\ last_call = None /\ exc = None /\ exit_code = None
    /\ workbook = None

NextExport == ExportExcel

SpecExport == InitExport /\ [][NextExport]_vars

----------------------------------------------------------------------------
(* main *)

TeamsBodyDomain ==
    { << >>,
      <<[name |-> "Arsenal FC", id |-> 1]>>,
      <<[name |-> "Arsenal FC", id |-> 1], [name |-> "Arsenal", id |-> 42]>> }

\* headers = get_headers(); use_api = headers is not None
MainStart ==
    /\ pc = "main"
    /\ use_api' = api_key
    /\ pc' = IF api_key THEN "find_team" ELSE "sample"
    /\ UNCHANGED <<ret, pickVars, envVars, team_id, buildVars, last_call, df, exc,
                   exit_code, workbook>>

\* team_id = find_team_id(team), sys.exit(2) when it is None
FindTeam ==
    /\ pc = "find_team"
    /\ \E statuses \in StatusSeqs, body \in TeamsBodyDomain :
          LET call == api_get(api_key, Replies(statuses, body))
          IN /\ last_call' = Some(call)
             /\ IF call.raised # None
                THEN /\ Propagate(call.raised[1])
                     /\ UNCHANGED <<team_id, exit_code>>
                ELSE IF find_team_id(call.value, team_name) = None
                THEN /\ pc' = "exited"
                     /\ exit_code' = Some(2)
                     /\ UNCHANGED <<team_id, exc>>
                ELSE /\ team_id' = find_team_id(call.value, team_name)
                     /\ pc' = "list_fixtures"
                     /\ UNCHANGED <<exc, exit_code>>
    /\ UNCHANGED <<ret, pickVars, envVars, use_api, buildVars, df, workbook>>

\* fixtures = list_fixtures(...), then the entry into
\* build_dataframe(fixtures, team, fetch_odds=True)
ListFixtures ==
    /\ pc = "list_fixtures"
    /\ \E statuses \in StatusSeqs,
          body \in SeqUpTo(FixtureDomain, MaxFixtures) :
          LET call == api_get(api_key, Replies(statuses, body))
          IN /\ last_call' = Some(call)
             /\ IF call.raised # None
                THEN /\ Propagate(call.raised[1])
                     /\ UNCHANGED buildVars
                ELSE /\ fixtures' = list_fixtures(call.value)
                     /\ fetch_odds' = TRUE
                     /\ done' = 0
                     /\ rows' = << >>
                     /\ pc' = "build"
                     /\ UNCHANGED exc
    /\ UNCHANGED <<ret, pickVars, envVars, use_api, team_id, df, exit_code, workbook>>

\* pd.to_datetime on a date without a time: midnight of that day
ToDatetime(s) ==
    CASE s = "2024-08-01" -> 0 - 48
      [] s = "2024-08-31" -> 672
      [] OTHER -> 0

\* The --from and --to arguments of the modelled run
DateFrom == ToDatetime("2024-08-01")
DateTo == ToDatetime("2024-08-31")

\* str.contains(team, case=False) for the subject team "Arsenal"
ContainsTeam(name, team) ==
    Lower(team) = "arsenal" /\ Lower(name) \in {"arsenal", "arsenal fc"}

InSample(r, team) ==
    /\ ContainsTeam(r.Home, team) \/ ContainsTeam(r.Away, team)
    /\ FromIso(r.DateUTC)[1] >= DateFrom
    /\ FromIso(r.DateUTC)[1] <= DateTo

RECURSIVE FilterSample(_, _, _)
FilterSample(csv, n, team) ==
    IF n = 0 THEN << >>
    ELSE IF InSample(csv[n], team)
         THEN Append(FilterSample(csv, n - 1, team), csv[n])
         ELSE FilterSample(csv, n - 1, team)

SampleRowDomain ==
    { MakeRow(f, <<Some(185), Some(340), Some(420)>>, "Arsenal") :
        f \in { Fx("2024-08-10T14:00:00+00:00", "Arsenal", "Chelsea", Some(1), Some(0)),
                Fx("2024-08-03T14:00:00+00:00", "Arsenal FC", "Liverpool", Some(0), Some(0)),
                Fx("2024-08-03T14:00:00+00:00", "Chelsea", "Liverpool", None, None) } }

\* The branch without a key: sys.exit(3) when the sample file is missing,
\* otherwise the file is read, filtered by team and period, and sorted.
LoadSample ==
    /\ pc = "sample"
    /\ IF ~sample_exists
       THEN /\ pc' = "exited"
            /\ exit_code' = Some(3)
            /\ UNCHANGED df
       ELSE /\ \E csv \in SeqUpTo(SampleRowDomain, MaxFixtures) :
                 LET kept == FilterSample(csv, Len(csv), team_name)
                 IN \E p \in DateOrders(kept) :
                       df' = Some([i \in 1..Len(kept) |-> kept[p[i]]])
            /\ pc' = "export"
            /\ UNCHANGED exit_code
    /\ UNCHANGED <<ret, pickVars, envVars, use_api, team_id, buildVars, last_call, exc,
                   workbook>>

\* MainExcept writing the rows gathered so far before it exits
MainExcept_WritesRows ==
    /\ pc = "main_except"
    /\ workbook' = Some(export_excel(rows, team_name))
    /\ pc' = "exited"
    /\ exit_code' = Some(1)
    /\ UNCHANGED <<ret, pickVars, envVars, use_api, team_id, buildVars, last_call, df,
                   exc>>

\* The except clause of main: an APIError is logged and the process exits
\* with 1; any other exception is not caught, and the interpreter prints it
\* and exits with 1 as well.
MainExcept ==
    /\ pc = "main_except"
    /\ exc' = IF exc[1].type = "APIError" THEN None ELSE exc
    /\ pc' = "exited"
    /\ exit_code' = Some(1)
    /\ UNCHANGED <<ret, pickVars, envVars, use_api, team_id, buildVars, last_call, df,
                   workbook>>

InitMain ==
    /\ pc = "main"
    /\ ret = "main"
    /\ odds_resp = << >> /\ kickoff_iso = "" /\ best_triple = None
    /\ api_key \in BOOLEAN
    /\ sample_exists \in BOOLEAN
    /\ team_name = "Arsenal"
    /\ use_api = FALSE /\ team_id = None
    /\ fixtures = << >> /\ fetch_odds = FALSE /\ done = 0 /\ rows = << >>
    /\ last_call = None /\ df = None /\ exc = None /\ exit_code = None
    /\ workbook = None

Next ==
    \/ MainStart
    \/ FindTeam
    \/ ListFixtures
    \/ BuildIter
    \/ BuildReturn
    \/ LoadSample
    \/ ExportExcel
    \/ MainExcept

Spec == InitMain /\ [][Next]_vars

----------------------------------------------------------------------------
(* Properties of the selector *)

AllAbsent == <<None, None, None>>

\* The bets of a response, addressed by entry, bookmaker and bet index.
Positions ==
    UNION { UNION { { <<i, j, k>> : k \in 1..Len(odds_resp[i].bookmakers[j].bets) }
                    : j \in 1..Len(odds_resp[i].bookmakers) }
            : i \in 1..Len(odds_resp) }

BookAt(p) == odds_resp[p[1]].bookmakers[p[2]]
BetAt(p) == BookAt(p).bets[p[3]]
InstantAt(p) == ParseUpdated(BookAt(p).update)
TripleAt(p) == ExtractTriple(BetAt(p).values)
Kickoff == FromIso(kickoff_iso)[1]

\* p comes before q in iteration order
Before(p, q) ==
    \/ p[1] < q[1]
    \/ p[1] = q[1] /\ p[2] < q[2]
    \/ p[1] = q[1] /\ p[2] = q[2] /\ p[3] < q[3]

Usable(price) == price # None /\ price[1] > 0
HasUsable(t) == \E n \in 1..3 : Usable(t[n])

MatchWinnerPositions ==
    { p \in Positions : LowerName(BetAt(p).name) \in {"match winner", "1x2"} }

Qualifying ==
    { p \in MatchWinnerPositions :
        /\ InstantAt(p) # None
        /\ InstantAt(p)[1] <= Kickoff
        /\ HasUsable(TripleAt(p)) }

Latest == { p \in Qualifying : \A q \in Qualifying : InstantAt(q)[1] <= InstantAt(p)[1] }

Picked == pc = "picked"
Result == best_triple[1]

\* C1: the selector returns the triple of a qualifying match-winner record
\* whose update instant is the latest among the qualifying ones, and the
\* all-absent triple when no record qualifies.
C1_LatestQualifying ==
    Picked =>
        IF Qualifying = {} THEN Result = AllAbsent
        ELSE \E p \in Latest : Result = TripleAt(p)

\* Two qualifying records, the later instant met first in the response, and
\* the later one's triple returned.
C1_Witness ==
    /\ Picked
    /\ \E p, q \in Qualifying :
          /\ Before(p, q)
          /\ InstantAt(q)[1] < InstantAt(p)[1]
          /\ TripleAt(p) # TripleAt(q)
          /\ Result = TripleAt(p)

\* C2: a returned triple always comes from a match-winner record whose
\* update stamp parses to an instant not after kickoff, and a usable record
\* stamped exactly at kickoff keeps the result from being all-absent.
C2_NeverAfterKickoff ==
    Picked =>
        /\ Result # AllAbsent =>
              \E p \in MatchWinnerPositions :
                  /\ InstantAt(p) # None
                  /\ InstantAt(p)[1] <= Kickoff
                  /\ Result = TripleAt(p)
        /\ (\E p \in MatchWinnerPositions :
                /\ InstantAt(p) = Some(Kickoff)
                /\ HasUsable(TripleAt(p)))
              => Result # AllAbsent

\* The only match-winner record carries usable prices but is stamped after
\* kickoff, and nothing is returned.
C2_Witness ==
    /\ Picked
    /\ Cardinality(MatchWinnerPositions) = 1
    /\ \A p \in MatchWinnerPositions :
          /\ InstantAt(p) # None
          /\ InstantAt(p)[1] > Kickoff
          /\ HasUsable(TripleAt(p))
    /\ Result = AllAbsent

\* C9: a record whose prices are all absent or zero is never the one
\* returned: the result is all-absent or is the unchanged triple of a
\* qualifying record, and it is the latter whenever a record qualifies.
C9_NoUsablePriceNeverSelected ==
    Picked =>
        /\ Result = AllAbsent \/ \E p \in Qualifying : Result = TripleAt(p)
        /\ Qualifying # {} => HasUsable(Result)

\* A qualifying record followed by a later-stamped pre-kickoff record whose
\* prices are all zero or absent; the first record's triple is returned.
C9_Witness ==
    /\ Picked
    /\ \E p \in Qualifying : \E q \in MatchWinnerPositions :
          /\ Before(p, q)
          /\ InstantAt(q) # None
          /\ InstantAt(p)[1] < InstantAt(q)[1]
          /\ InstantAt(q)[1] <= Kickoff
          /\ ~HasUsable(TripleAt(q))
          /\ Result = TripleAt(p)

\* C10: among the qualifying records sharing the latest update instant the
\* first one in iteration order supplies the result.
C10_FirstOfEqualLatest ==
    Picked =>
        \A p \in Latest :
            (\A q \in Latest : q = p \/ Before(p, q)) => Result = TripleAt(p)

\* Two qualifying records with the same latest instant and different
\* triples; the earlier one in iteration order is returned.
C10_Witness ==
    /\ Picked
    /\ \E p, q \in Latest :
          /\ Before(p, q)
          /\ TripleAt(p) # TripleAt(q)
          /\ Result = TripleAt(p)

----------------------------------------------------------------------------
(* Properties of the HTTP wrapper and the row builder *)

Called == last_call # None
Call == last_call[1]
FailedWith(msgs) ==
    Called /\ Call.cause # None /\ Call.cause[1].type = "APIError"
           /\ Call.cause[1].msg \in msgs

\* C3: a call makes at most three attempts, and one that fails for missing
\* credentials or a non-2xx status other than 429 ends after a single
\* attempt with that error raised to the caller.
C3_RetryOnlyRateLimited ==
    Called =>
        /\ Call.attempts <= 3
        /\ FailedWith({"NO_API_KEY", "HTTP_500", "HTTP_404", "HTTP_other"}) =>
              /\ Call.attempts = 1
              /\ Call.raised = Call.cause

\* C4: an odds fetch failing with an HTTP error or an exhausted rate limit
\* leaves the loop running: no exception leaves build_dataframe, the fixture
\* has its row with absent odds, and the returned frame has one row per
\* fixture.
C4_OddsFailureIsolated ==
    /\ (pc \in {"build", "raised"}
          /\ FailedWith({"RATE_LIMIT", "HTTP_500", "HTTP_404", "HTTP_other"})) =>
          /\ exc = None
          /\ pc = "build"
          /\ Len(rows) = done
          /\ rows[done].Odds_H = None /\ rows[done].Odds_D = None
          /\ rows[done].Odds_A = None
    /\ pc = "returned" => Len(df[1]) = Len(fixtures)

\* C5: an odds fetch failing for missing credentials does not fail the run:
\* the flag is switched off, the fixture has its row with absent odds, and
\* once off the flag stays off and no further call is made.
C5_NoCredentialsDisablesOdds ==
    /\ (pc \in {"build", "raised"} /\ FailedWith({"NO_API_KEY"})) =>
          /\ exc = None
          /\ pc = "build"
          /\ ~fetch_odds
          /\ Len(rows) = done
          /\ rows[done].Odds_H = None /\ rows[done].Odds_D = None
          /\ rows[done].Odds_A = None
    /\ (pc = "build" /\ ~fetch_odds /\ done > 0 /\ ~Called) =>
          rows[done].Odds_H = None

Consistent(outcome, hg, ag) ==
    /\ outcome = None <=> (hg = None \/ ag = None)
    /\ outcome \in {None, Some("H"), Some("D"), Some("A")}
    /\ outcome = Some("H") <=> (hg # None /\ ag # None /\ hg[1] > ag[1])
    /\ outcome = Some("A") <=> (hg # None /\ ag # None /\ ag[1] > hg[1])
    /\ outcome = Some("D") <=> (hg # None /\ ag # None /\ ag[1] = hg[1])

\* C8: every row carries the goal counts of its fixture and an Outcome that
\* is null iff a goal count is null, and otherwise H, A or D as the home
\* count is larger than, smaller than or equal to the away count.
C8_OutcomeConsistent ==
    /\ \A i \in 1..Len(rows) :
          /\ rows[i].HomeGoals = fixtures[i].goals.home
          /\ rows[i].AwayGoals = fixtures[i].goals.away
          /\ Consistent(rows[i].Outcome, rows[i].HomeGoals, rows[i].AwayGoals)
    /\ df # None =>
          \A i \in 1..Len(df[1]) :
              Consistent(df[1][i].Outcome, df[1][i].HomeGoals, df[1][i].AwayGoals)

\* A returned frame holding an away win and a match without a final score.
C8_Witness ==
    /\ pc = "returned"
    /\ \E i, j \in 1..Len(df[1]) :
          /\ df[1][i].Outcome = Some("A")
          /\ df[1][j].Outcome = None
          /\ df[1][j].HomeGoals # None

----------------------------------------------------------------------------
(* Properties of the summary *)

Written == workbook # None
Counts == workbook[1].summary.counts[1]
Decided(r) == r.Outcome # None
DecidedWithSide(r) ==
    r.Outcome = Some("D") \/ (r.Outcome \in {Some("H"), Some("A")} /\ r.TeamSide # None)
LostOnSide(r) ==
    /\ r.Outcome \in {Some("H"), Some("A")}
    /\ r.TeamSide # None
    /\ ~(r.Outcome = Some("H") /\ r.TeamSide = Some("Home"))
    /\ ~(r.Outcome = Some("A") /\ r.TeamSide = Some("Away"))
WonOnSide(r) ==
    \/ r.Outcome = Some("H") /\ r.TeamSide = Some("Home")
    \/ r.Outcome = Some("A") /\ r.TeamSide = Some("Away")

\* C6 as stated: whenever some row has an Outcome, Wins, Draws and Losses add
\* up to the number of rows with an Outcome.
C6_CountsCoverDecided ==
    (Written /\ Count(df[1], Decided) > 0) =>
        /\ workbook[1].summary.counts # None
        /\ Counts.Wins + Counts.Draws + Counts.Losses = Count(df[1], Decided)

\* C6 amended: the counts are written iff some row has an Outcome; Wins counts
\* the rows won on the side played, Draws the rows with Outcome D, Losses the
\* decided non-draw rows with a TeamSide that are not wins; the three add up
\* to the number of rows that are draws or are decided with a TeamSide.
C6_CountsCoverDecidedWithSide ==
    Written =>
        /\ workbook[1].summary.Matches = Len(df[1])
        /\ workbook[1].summary.counts # None <=> Count(df[1], Decided) > 0
        /\ Count(df[1], Decided) > 0 =>
              /\ Counts.Wins = Count(df[1], WonOnSide)
              /\ Counts.Draws = Count(df[1], LAMBDA r : r.Outcome = Some("D"))
              /\ Counts.Losses = Count(df[1], LostOnSide)
              /\ Counts.Wins + Counts.Draws + Counts.Losses
                    = Count(df[1], DecidedWithSide)

\* Two home wins, an away loss and a draw: Matches=4, Wins=2, Draws=1,
\* Losses=1.
C6_Witness ==
    /\ Written
    /\ Len(df[1]) = 4
    /\ Count(df[1], LAMBDA r : r.Outcome = Some("H") /\ r.TeamSide = Some("Home")) = 2
    /\ Count(df[1], LAMBDA r : r.Outcome = Some("H") /\ r.TeamSide = Some("Away")) = 1
    /\ Count(df[1], LAMBDA r : r.Outcome = Some("D")) = 1
    /\ workbook[1].summary.Matches = 4
    /\ Counts = [Wins |-> 2, Draws |-> 1, Losses |-> 1]

----------------------------------------------------------------------------
(* Properties of main *)

Aborted == exit_code \in {Some(1), Some(2), Some(3)}

\* C7: a workbook exists only once the whole frame has been built and no
\* exception is on its way, and a run in which the team is not found, a call
\* of the resolver, the lister or the odds fetch raises, or the sample file
\* is missing, ends with a nonzero status and no workbook.
C7_ExportOnlyAfterRowsBuilt ==
    /\ Written =>
          /\ exit_code = Some(0)
          /\ exc = None
          /\ df # None
          /\ workbook[1].data = df[1]
          /\ use_api => /\ team_id # None
                        /\ done = Len(fixtures)
                        /\ Len(df[1]) = Len(fixtures)
    /\ Aborted => ~Written
    /\ exc # None => ~Written /\ pc \in {"main_except", "exited"}
    /\ (use_api /\ team_id = None /\ pc \notin {"main", "find_team"}) =>
          ~Written /\ pc \in {"main_except", "exited"}
    /\ (~api_key /\ ~sample_exists /\ pc \notin {"main", "sample"}) =>
          ~Written /\ exit_code = Some(3)
    /\ pc = "exited" => (Written <=> exit_code = Some(0))

\* The resolver found no team: the run has ended with status 2 and no
\* workbook.
C7_Witness ==
    /\ pc = "exited"
    /\ exit_code = Some(2)
    /\ use_api
    /\ team_id = None
    /\ ~Written

====
